---------------------------- MODULE Spec2Model ----------------------------
(***************************************************************************)
(* A model of cutevariant's paginated result model (QueryModel, in         *)
(* gui/plugins/query_view/widgets.py) and of the annotation field resolver *)
(* (AnnotationParser, in core/reader/vcfreader.py).                        *)
(*                                                                         *)
(* Spec   : QueryModel driven by its public operations, over a backing    *)
(*          store that may change between operations.                      *)
(* SpecAP : AnnotationParser.parse_fields, iterated over bounded headers.  *)
(***************************************************************************)
EXTENDS Integers, Sequences, FiniteSets, TLC

\* ------------------------------------------------------------------------
\* Bounds of the model
\* ------------------------------------------------------------------------

\* the backing store holds at most MaxStore variants
MaxStore == 5
\* QueryModel.limit, the page size (the code's default is 50, the module's
\* __main__ sets 3); scaled down so that MaxStore variants span several pages
PageLimit == 2
\* a header given to parse_fields has at most MaxTokens pipe-separated tokens
MaxTokens == 3
MaxSamples == 3
MaxAlts == 2
\* sections added to a SettingsDialog after its construction, pages of such
\* a section, values typed into pages
MaxAdded == 2
MaxPages == 2
MaxEdits == 2
\* links a LinksModel holds
MaxLinks == 2

VARIABLES
    \* ---- QueryModel (widgets.py:33-48) ----
    conn,        \* self._conn : NoConn or Conn
    limit,       \* self.limit
    page,        \* self.page
    total,       \* self.total
    variants,    \* self.variants : the cached page, a sequence of rows
    headers,     \* self.headers
    fields,      \* self.fields
    filters,     \* self.filters
    source,      \* self.source
    order_by,    \* self.order_by
    order_desc,  \* self.order_desc
    \* ---- the backing store behind conn ----
    nstore,      \* number of variants in the store
    \* ---- what the last operation did (observation only) ----
    op,          \* [name, arg, emit] : the last operation called and its inputs
    outcome,     \* how the last operation ended: "returned", or the exception
                 \* that left it ("select_raised", "count_raised", "IndexError")
    signals,     \* the notifications the last operation emitted, in order, with
                 \* the writes of self.variants ("rows") and self.total ("total")
                 \* at their places between them
    fetch,       \* the select the last operation issued, or NoFetch
    \* ---- AnnotationParser (vcfreader.py:64-82) ----
    fields_index, \* self.fields_index, or NoFieldsIndex while the attribute is unset
    gen,          \* the generator the last parse_fields call returned
    yielded,      \* what that generator has yielded so far
    pv,           \* the last parse_variant call: its argument and what it
                  \* returned or raised (NoCall after any other operation)
    \* ValidationGroup (condensedui/widgets.py)
    widgets,      \* checkbox_fav, selected_classifications, le_tags_include,
                  \* le_comments_search
    lists,        \* the list objects: the $and list the caller's dict holds
                  \* ("given") and the one update_query creates ("made")
    passed,       \* the dict passed to update_query: which list its $and is
    returned,     \* the dict update_query returned: which list its $and is
    before,       \* the tree passed, as it was when the call began
    first,        \* the tree returned by the first of the applications
    applied,      \* update_query calls made in a row since the widgets changed
    \* VcfReader.parse_variants (vcfreader.py)
    record,       \* the record of the outer loop
    alt_index,    \* index of the inner loop over record.ALT
    variant,      \* the dict being built: its keys, its alt and, under
                  \* "samples", a list of references to dict objects
    objects,      \* the dict objects made for the samples of this variant
    sample_index, \* samples of the record the sample loop has been through
    pc,           \* where the generator stands
    \* SettingsDialog (gui/settings.py)
    sections,     \* self.widgets: per section, the value each of its pages holds
    config,       \* what Config holds: (key of a page, value) pairs
    saves,        \* the save() calls of the last Save All: (section, page)
    visible,      \* dialog.isVisible()
    edits,        \* values the user has typed in pages
    sd_op,        \* the last thing done to the dialog
    \* LinksModel (variant_view/settings.py)
    links,        \* self.links
    lm_op,        \* the last call: its name, row, is_default argument and
                  \* result, whether a link was the default before it and
                  \* whether it changed the list
    \* CondenseduiWidget (condensedui/widgets.py)
    preset,       \* the row selected in combo_filters
    state_data,   \* the filters last given to mainwindow.set_state_data
    mw_calls,     \* the calls made on mainwindow for the last signal emitted
    \* GenotypesWidget (genotypes/widgets.py)
    col,          \* the variable col of _create_field_menu, which the lambdas
                  \* of the menu's actions read when they are called
    menu,         \* the actions of the field menu: whether each is checked
    hidden,       \* the columns of the view that are hidden
    gw_op         \* the last thing done: its name and the action toggled

qmvars == <<conn, limit, page, total, variants, headers, fields, filters,
            source, order_by, order_desc>>
obsvars == <<op, outcome, signals, fetch>>
apvars == <<fields_index, gen, yielded, pv>>
vgvars == <<widgets, lists, passed, returned, before, first, applied>>
vrvars == <<record, alt_index, variant, objects, sample_index, pc>>
sdvars == <<sections, config, saves, visible, edits, sd_op>>
lmvars == <<links, lm_op>>
cwvars == <<preset, state_data, mw_calls>>
gwvars == <<col, menu, hidden, gw_op>>
vars == <<qmvars, nstore, obsvars, apvars, vgvars, vrvars, sdvars, lmvars,
          cwvars, gwvars>>

\* what the operations of QueryModel, and those of AnnotationParser, leave alone
notQM == <<apvars, vgvars, vrvars, sdvars, lmvars, cwvars, gwvars>>
notAP == <<qmvars, nstore, obsvars, vgvars, vrvars, sdvars, lmvars, cwvars, gwvars>>
notVG == <<qmvars, nstore, obsvars, apvars, vrvars, sdvars, lmvars, cwvars, gwvars>>
notVR == <<qmvars, nstore, obsvars, apvars, vgvars, sdvars, lmvars, cwvars, gwvars>>
notSD == <<qmvars, nstore, obsvars, apvars, vgvars, vrvars, lmvars, cwvars, gwvars>>
notLM == <<qmvars, nstore, obsvars, apvars, vgvars, vrvars, sdvars, cwvars, gwvars>>
notCW == <<qmvars, nstore, obsvars, apvars, vrvars, sdvars, lmvars,
           lists, passed, returned, before, first, applied, gwvars>>
notGW == <<qmvars, nstore, obsvars, apvars, vgvars, vrvars, sdvars, lmvars,
           cwvars>>

NoConn == "NoConn"
Conn == "Conn"
None == "None"
NoFetch == [issued |-> FALSE, offset |-> 0, order_by |-> None]

\* ------------------------------------------------------------------------
\* The backing store: cutevariant.core.command.select_cmd / count_cmd
\* ------------------------------------------------------------------------

DefaultFields == <<"chr", "pos", "ref", "alt">>
\* the (fields, source, filters) a plugin may set before it calls load()
QueryChoices ==
    { <<DefaultFields, "variants", "nofilter">>,
      <<DefaultFields, "variants", "classification">>,
      <<(<<"chr">>), "sel", "nofilter">> }

\* the pages setPage is called with: one before the first page up to one
\* past the last page a full store can have
PageArgs == -1..(MaxStore \div PageLimit + 1)

\* the columns sort is called with: -1 (Qt's "no sort column"), the first
\* two columns and the first column past the widest header list
SortColumns == {-1, 0, 1, Len(DefaultFields) + 1}

\* the ids of the variants of the store that a source and a filter keep:
\* the selection "sel" holds the variants other than the first one, the
\* filter keeps the variants whose id is odd
Matching(n, src, flt) ==
    {i \in 1..n : (src = "variants" \/ i > 1) /\ (flt = "nofilter" \/ i % 2 = 1)}

RECURSIVE Ascending(_)
Ascending(S) ==
    IF S = {} THEN <<>>
    ELSE LET m == CHOOSE x \in S : \A y \in S : x <= y
         IN <<m>> \o Ascending(S \ {m})

Reverse(s) == [i \in 1..Len(s) |-> s[Len(s) + 1 - i]]

\* a row is a mapping field -> value; it is kept as its id and its key sequence
Row(i, flds) == [id |-> i, keys |-> <<"id">> \o flds]

\* select_cmd(conn, fields, source, filters, limit, offset, order_desc, order_by)
select_cmd(n, flds, src, flt, lim, offset, desc, oby) ==
    LET asc == Ascending(Matching(n, src, flt))
        ordered == IF oby # None /\ desc THEN Reverse(asc) ELSE asc
        last == IF offset + lim < Len(ordered) THEN offset + lim ELSE Len(ordered)
    IN [k \in 1..(IF last > offset THEN last - offset ELSE 0) |->
            Row(ordered[offset + k], flds)]

\* count_cmd(conn, source, filters)
count_cmd(n, src, flt) == Cardinality(Matching(n, src, flt))

\* how the store answers one load: both queries return, the select raises, or
\* the select returns and the count raises
StoreAnswers == {"ok", "select_raises", "count_raises"}

\* ------------------------------------------------------------------------
\* QueryModel
\* ------------------------------------------------------------------------

\* a hasPage that takes the page starting exactly at total for an existing one
hasPage_inclusive(p) == p >= 0 /\ p * limit <= total

\* hasPage (widgets.py:198-200)
hasPage(p) == p >= 0 /\ p * limit < total

\* an offset one page too far
LoadOffset_next(pg) == (pg + 1) * limit

\* offset = self.page * self.limit (widgets.py:161)
LoadOffset(pg) == pg * limit

\* rows merged into the cached page instead of replacing it
ReplaceRows_append(old, rows) == old \o rows

\* self.variants.clear(); self.variants = list(select_cmd(...)) (163-172)
ReplaceRows(old, rows) == rows

\* headers recomputed from an empty page, which clears them
NewHeaders_clearing(rows, old) == IF rows # <<>> THEN rows[1].keys ELSE <<>>

\* if self.variants: self.headers = list(self.variants[0].keys()) (174-175)
NewHeaders(rows, old) == IF rows # <<>> THEN rows[1].keys ELSE old

\* setPage and sort calling load() with its default emit_changed
PageLoadEmit_default == TRUE

\* the emit_changed that setPage and sort pass to load (207, 239)
PageLoadEmit == FALSE

\* int(self.total / self.limit) (widgets.py:225)
lastPageTarget == total \div limit

\* load(emit_changed) run with the attributes c, pg, flds, src, flt, oby, desc
\* (the values self.conn, self.page, ... have when load is entered)
load(emit_changed, c, pg, flds, src, flt, oby, desc) ==
    IF c = NoConn
    THEN /\ UNCHANGED <<variants, headers, total>>
         /\ signals' = <<>>
         /\ fetch' = NoFetch
         /\ outcome' = "returned"
    ELSE \E answer \in StoreAnswers :
         LET offset == LoadOffset(pg)
             rows == select_cmd(nstore, flds, src, flt, limit, offset, desc, oby)
         IN /\ fetch' = [issued |-> TRUE, offset |-> offset, order_by |-> oby]
            /\ IF answer = "select_raises"
               THEN \* beginResetModel, variants.clear(), then the exception
                    \* leaves load
                    /\ variants' = <<>>
                    /\ UNCHANGED <<headers, total>>
                    /\ signals' = <<"modelAboutToBeReset", "rows">>
                    /\ outcome' = "select_raised"
               ELSE /\ variants' = ReplaceRows(variants, rows)
                    /\ headers' = NewHeaders(variants', headers)
                    /\ IF ~emit_changed
                       THEN /\ UNCHANGED total
                            /\ signals' = <<"modelAboutToBeReset", "rows",
                                            "modelReset">>
                            /\ outcome' = "returned"
                       ELSE IF answer = "count_raises"
                            THEN /\ UNCHANGED total
                                 /\ signals' = <<"modelAboutToBeReset", "rows",
                                                 "modelReset", "changed">>
                                 /\ outcome' = "count_raised"
                            ELSE /\ total' = count_cmd(nstore, src, flt)
                                 /\ signals' = <<"modelAboutToBeReset", "rows",
                                                 "modelReset", "changed", "total">>
                                 /\ outcome' = "returned"

Op(name, arg, emit) == [name |-> name, arg |-> arg, emit |-> emit]

\* nothing happens: the operation returns without touching the model
Rejected ==
    /\ UNCHANGED <<page, total, variants, headers>>
    /\ signals' = <<>>
    /\ fetch' = NoFetch
    /\ outcome' = "returned"

\* setPage (widgets.py:202-207), called with page p
setPage(p) ==
    IF hasPage(p)
    THEN /\ page' = p
         /\ load(PageLoadEmit, conn, p, fields, source, filters, order_by, order_desc)
    ELSE Rejected

\* QueryModel.load called by the view (widgets.py:144-183)
Load ==
    /\ UNCHANGED notQM
    /\ \E emit \in BOOLEAN :
           /\ op' = Op("load", 0, emit)
           /\ load(emit, conn, page, fields, source, filters, order_by, order_desc)
           /\ UNCHANGED <<conn, limit, page, fields, filters, source, order_by,
                          order_desc, nstore>>

\* QueryViewWidget.on_open_project (widgets.py:605-609)
OpenProject ==
    /\ UNCHANGED notQM
    /\ op' = Op("on_open_project", 0, TRUE)
    /\ conn' = Conn
    /\ load(TRUE, Conn, page, fields, source, filters, order_by, order_desc)
    /\ UNCHANGED <<limit, page, fields, filters, source, order_by, order_desc,
                   nstore>>

\* a plugin sets fields, source and filters and calls load()
\* ("on_change_query() from the view", widgets.py:150-152)
ChangeQuery ==
    /\ UNCHANGED notQM
    /\ \E q \in QueryChoices :
           LET flds == q[1]
               src == q[2]
               flt == q[3]
           IN
           /\ op' = Op("change_query", 0, TRUE)
           /\ fields' = flds
           /\ source' = src
           /\ filters' = flt
           /\ load(TRUE, conn, page, flds, src, flt, order_by, order_desc)
           /\ UNCHANGED <<conn, limit, page, order_by, order_desc, nstore>>

\* the texts load_from_vql is called with: one that is no VQL and the
\* select statement "SELECT chr FROM sel"
VqlTexts == {"not vql", "SELECT chr FROM sel"}

\* load_from_vql (widgets.py:185-196): the parameter vql hides the module
\* vql, so vql.parse_one_vql is looked up on the text and raises
\* AttributeError inside the try; the bare except swallows it
load_from_vql ==
    /\ UNCHANGED notQM
    /\ \E text \in VqlTexts :
           /\ op' = Op("load_from_vql", text, TRUE)
           /\ Rejected
           /\ UNCHANGED <<conn, limit, fields, filters, source, order_by,
                          order_desc, nstore>>

SetPage ==
    /\ UNCHANGED notQM
    /\ \E n \in PageArgs :
           /\ op' = Op("setPage", n, FALSE)
           /\ setPage(n)
           /\ UNCHANGED <<conn, limit, fields, filters, source, order_by,
                          order_desc, nstore>>

\* nextPage (widgets.py:209-212)
NextPage ==
    /\ UNCHANGED notQM
    /\ op' = Op("nextPage", page + 1, FALSE)
    /\ IF hasPage(page + 1) THEN setPage(page + 1) ELSE Rejected
    /\ UNCHANGED <<conn, limit, fields, filters, source, order_by, order_desc,
                   nstore>>

\* previousPage (widgets.py:214-217)
PreviousPage ==
    /\ UNCHANGED notQM
    /\ op' = Op("previousPage", page - 1, FALSE)
    /\ IF hasPage(page - 1) THEN setPage(page - 1) ELSE Rejected
    /\ UNCHANGED <<conn, limit, fields, filters, source, order_by, order_desc,
                   nstore>>

\* firstPage (widgets.py:219-221)
FirstPage ==
    /\ UNCHANGED notQM
    /\ op' = Op("firstPage", 0, FALSE)
    /\ setPage(0)
    /\ UNCHANGED <<conn, limit, fields, filters, source, order_by, order_desc,
                   nstore>>

\* lastPage (widgets.py:223-225)
LastPage ==
    /\ UNCHANGED notQM
    /\ op' = Op("lastPage", lastPageTarget, FALSE)
    /\ setPage(lastPageTarget)
    /\ UNCHANGED <<conn, limit, fields, filters, source, order_by, order_desc,
                   nstore>>

\* columnCount (widgets.py:79-84)
columnCount == Len(headers)

\* sort (widgets.py:227-239); descending is order == Qt.DescendingOrder.
\* headers[column] with a negative column counts from the end of the list
\* and raises IndexError when the list is shorter than -column.
Sort ==
    /\ UNCHANGED notQM
    /\ \E column \in SortColumns, descending \in BOOLEAN :
           /\ op' = Op("sort", column, FALSE)
           /\ IF column < columnCount
              THEN IF column < 0 /\ -column > Len(headers)
                   THEN \* IndexError
                        /\ UNCHANGED <<page, total, variants, headers, order_by,
                                       order_desc>>
                        /\ signals' = <<>>
                        /\ fetch' = NoFetch
                        /\ outcome' = "IndexError"
                   ELSE LET colname == IF column >= 0 THEN headers[column + 1]
                                       ELSE headers[Len(headers) + column + 1]
                        IN /\ order_by' = colname
                           /\ order_desc' = descending
                           /\ UNCHANGED page
                           /\ load(PageLoadEmit, conn, page, fields, source, filters,
                                   colname, descending)
              ELSE /\ Rejected
                   /\ UNCHANGED <<order_by, order_desc>>
           /\ UNCHANGED <<conn, limit, fields, filters, source, nstore>>

\* the backing store gains or loses a variant between two operations
StoreChange ==
    /\ UNCHANGED notQM
    /\ \E n \in {nstore - 1, nstore + 1} :
           /\ n \in 0..MaxStore
           /\ nstore' = n
           /\ op' = Op("store_change", 0, FALSE)
           /\ outcome' = "returned"
           /\ signals' = <<>>
           /\ fetch' = NoFetch
           /\ UNCHANGED qmvars

\* QueryModel.__init__ (widgets.py:33-48)
InitQM ==
    /\ conn \in {NoConn, Conn}
    /\ limit = PageLimit
    /\ page = 0
    /\ total = 0
    /\ variants = <<>>
    /\ headers = <<>>
    /\ fields = DefaultFields
    /\ filters = "nofilter"
    /\ source = "variants"
    /\ order_by = None
    /\ order_desc = TRUE
    /\ nstore \in 0..MaxStore
    /\ op = Op("init", 0, FALSE)
    /\ outcome = "returned"
    /\ signals = <<>>
    /\ fetch = NoFetch


\* ------------------------------------------------------------------------
\* AnnotationParser (core/reader/vcfreader.py)
\* ------------------------------------------------------------------------
\* A string is modelled as the sequence of its characters.

Pipe == "|"
Whitespace == {" ", "\t"}
UpperCase == <<"A", "B", "C", "D", "E", "F", "G", "H", "I", "J", "K", "L", "M",
               "N", "O", "P", "Q", "R", "S", "T", "U", "V", "W", "X", "Y", "Z">>
LowerCase == <<"a", "b", "c", "d", "e", "f", "g", "h", "i", "j", "k", "l", "m",
               "n", "o", "p", "q", "r", "s", "t", "u", "v", "w", "x", "y", "z">>

\* str.lower()
LowerChar(c) ==
    IF \E i \in DOMAIN UpperCase : UpperCase[i] = c
    THEN LowerCase[CHOOSE i \in DOMAIN UpperCase : UpperCase[i] = c]
    ELSE c
Lower(str) == [i \in 1..Len(str) |-> LowerChar(str[i])]

\* str.strip()
RECURSIVE LStrip(_)
LStrip(str) ==
    IF str # <<>> /\ Head(str) \in Whitespace THEN LStrip(Tail(str)) ELSE str
Strip(str) == Reverse(LStrip(Reverse(LStrip(str))))

\* str.split(sep): the pieces between the separators, empty pieces kept
RECURSIVE Split(_, _)
Split(str, sep) ==
    IF \E i \in 1..Len(str) : str[i] = sep
    THEN LET i == CHOOSE k \in 1..Len(str) :
                      str[k] = sep /\ \A j \in 1..(k - 1) : str[j] # sep
         IN <<SubSeq(str, 1, i - 1)>> \o Split(SubSeq(str, i + 1, Len(str)), sep)
    ELSE <<str>>

\* "|".join(tokens)
RECURSIVE JoinPipe(_)
JoinPipe(tokens) ==
    IF Len(tokens) = 0 THEN <<>>
    ELSE IF Len(tokens) = 1 THEN tokens[1]
    ELSE tokens[1] \o <<Pipe>> \o JoinPipe(Tail(tokens))

Descriptor(name, description) ==
    [name |-> name, category |-> "annotation", description |-> description,
     type |-> "str"]

\* SNPEFF_ANNOTATION_DEFAULT_FIELDS (vcfreader.py:12-61), as (key, descriptor)
SNPEFF_ANNOTATION_DEFAULT_FIELDS ==
    {
      <<<<"a", "n", "n", "o", "t", "a", "t", "i", "o", "n">>,
        Descriptor("consequence", "consequence")>>,
      <<<<"a", "n", "n", "o", "t", "a", "t", "i", "o", "n", "_", "i", "m", "p", "a", "c", "t">>,
        Descriptor("impact", "impact of variant")>>,
      <<<<"g", "e", "n", "e", "_", "n", "a", "m", "e">>,
        Descriptor("gene", "gene name")>>,
      <<<<"g", "e", "n", "e", "_", "i", "d">>,
        Descriptor("gene_id", "gene name")>>,
      <<<<"f", "e", "a", "t", "u", "r", "e", "_", "i", "d">>,
        Descriptor("transcript", "transcript name")>>,
      <<<<"t", "r", "a", "n", "s", "c", "r", "i", "p", "t", "_", "b", "i", "o", "t", "y", "p", "e">>,
        Descriptor("biotype", " biotype")>>,
      <<<<"h", "g", "v", "s", ".", "p">>,
        Descriptor("hgvs_p", "protein hgvs")>>,
      <<<<"h", "g", "v", "s", ".", "c">>,
        Descriptor("hgvs_c", "coding hgvs")>>
    }
SchemaKeys == {e[1] : e \in SNPEFF_ANNOTATION_DEFAULT_FIELDS}
SchemaAt(key) == (CHOOSE e \in SNPEFF_ANNOTATION_DEFAULT_FIELDS : e[1] = key)[2]

\* the tokens of the headers parse_fields is called with
\* "Allele": not a key of the schema
tokAllele == <<"A", "l", "l", "e", "l", "e">>
\* "Annotation": a key, in mixed case
tokAnnotation == <<"A", "n", "n", "o", "t", "a", "t", "i", "o", "n">>
\* "Gene_Name": another key, in mixed case
tokGeneName == <<"G", "e", "n", "e", "_", "N", "a", "m", "e">>
\* " Feature_ID ": a key padded with blanks
tokFeatureId == <<" ", "F", "e", "a", "t", "u", "r", "e", "_", "I", "D", " ">>
\* "": an empty token
tokEmpty == <<>>
\* "Gene Name": a blank inside the token, not a key
tokGeneBlankName == <<"G", "e", "n", "e", " ", "N", "a", "m", "e">>
RawTokens ==
    {tokAllele, tokAnnotation, tokGeneName, tokFeatureId, tokEmpty,
     tokGeneBlankName}

\* the headers of a first parse_fields call: 1..MaxTokens tokens joined by "|"
Headers ==
    {JoinPipe(ts) : ts \in UNION {[1..n -> RawTokens] : n \in 1..MaxTokens}}

\* the headers of a parse_fields call that follows another one
LaterHeaders ==
    {JoinPipe(<<tokGeneName, tokAllele>>),
     JoinPipe(<<tokAllele, tokFeatureId, tokAnnotation>>),
     JoinPipe(<<tokAllele>>)}

\* the key taken without trimming the token
FieldKey_untrimmed(field) == Lower(field)

\* key = field.strip().lower() (vcfreader.py:68)
FieldKey(field) == Lower(Strip(field))

\* the generator that parse_fields(raw) returns: nothing of its body has run
NewGenerator(raw) == [state |-> "created", raw |-> raw, pos |-> 0]
NoGenerator == [state |-> "none", raw |-> <<>>, pos |-> 0]

\* self.fields_index: AnnotationParser has no __init__, the attribute exists
\* only once the body of parse_fields has started
NoFieldsIndex == [set |-> FALSE, map |-> <<>>]

\* no parse_variant call to look at
NoCall == [called |-> FALSE, value |-> <<>>, raised |-> FALSE, result |-> {}]

\* parse_fields(raw) is called (vcfreader.py:65): a generator is created, the
\* caller drops the one it had
ParseFieldsCall ==
    \E raw \in (IF gen.state = "none" THEN Headers ELSE LaterHeaders) :
        /\ gen' = NewGenerator(raw)
        /\ yielded' = <<>>
        /\ pv' = NoCall
        /\ UNCHANGED fields_index
        /\ UNCHANGED notAP

\* the caller takes the next item of the generator (vcfreader.py:66-72): the
\* body runs from where it was suspended to the next yield, or to its end
GeneratorNext ==
    /\ gen.state \in {"created", "running"}
    /\ LET tokens == Split(gen.raw, Pipe)
           \* self.fields_index = {} runs when the body starts
           index0 == IF gen.state = "created" THEN <<>> ELSE fields_index.map
           \* the tokens not yet visited whose key is in the schema
           hits == {i \in (gen.pos + 1)..Len(tokens) :
                        FieldKey(tokens[i]) \in SchemaKeys}
       IN IF hits = {}
          THEN /\ gen' = [gen EXCEPT !.state = "done", !.pos = Len(tokens)]
               /\ fields_index' = [set |-> TRUE, map |-> index0]
               /\ UNCHANGED yielded
          ELSE LET i == CHOOSE k \in hits : \A j \in hits : k <= j
                   field == SchemaAt(FieldKey(tokens[i]))
               IN /\ gen' = [gen EXCEPT !.state = "running", !.pos = i]
                  \* enumerate counts from 0
                  /\ fields_index' =
                        [set |-> TRUE,
                         map |-> [k \in DOMAIN index0 \cup {i - 1} |->
                                     IF k = i - 1 THEN field.name ELSE index0[k]]]
                  /\ yielded' = Append(yielded, field)
    /\ pv' = NoCall
    /\ UNCHANGED notAP

\* the annotation strings parse_variant is called with
\* "A|missense|TP53"
valThree ==
    <<"A", "|", "m", "i", "s", "s", "e", "n", "s", "e", "|", "T", "P", "5", "3">>
\* "A|missense": shorter than a header of three tokens
valTwo == <<"A", "|", "m", "i", "s", "s", "e", "n", "s", "e">>
\* "": one empty token
valEmpty == <<>>
\* "T|C|G|A|T": longer than any header of the model with MaxTokens = 3
valFive == <<"T", "|", "C", "|", "G", "|", "A", "|", "T">>
Values == {valThree, valTwo, valEmpty, valFive}

\* if index in self.fields_index (vcfreader.py:78), index counted from 0
IndexKnown(index, table) == index \in DOMAIN table

\* the dict built when the first position of a name is the one kept
parse_variant_first_kept(raw, table) ==
    LET anns == Split(raw, Pipe)
        known == {i \in 0..(Len(anns) - 1) : IndexKnown(i, table)}
    IN {<<table[i], anns[i + 1]>> :
            i \in {k \in known : \A j \in known : table[j] = table[k] => j >= k}}

\* the dict parse_variant builds (vcfreader.py:76-82), as the set of its
\* (key, value) pairs: annotation[field_name] = ann runs for the known
\* positions in increasing order, so a later position of the same name
\* overwrites an earlier one
parse_variant(raw, table) ==
    LET anns == Split(raw, Pipe)
        known == {i \in 0..(Len(anns) - 1) : IndexKnown(i, table)}
    IN {<<table[i], anns[i + 1]>> :
            i \in {k \in known : \A j \in known : table[j] = table[k] => j <= k}}

\* parse_variant(raw) is called (vcfreader.py:74-82). raw.split("|") has at
\* least one item, so line 78 always reads self.fields_index: AttributeError
\* while the attribute is unset
ParseVariant ==
    \E raw \in Values :
        /\ pv' = IF fields_index.set
                 THEN [called |-> TRUE, value |-> raw, raised |-> FALSE,
                       result |-> parse_variant(raw, fields_index.map)]
                 ELSE [called |-> TRUE, value |-> raw, raised |-> TRUE,
                       result |-> {}]
        /\ UNCHANGED <<fields_index, gen, yielded>>
        /\ UNCHANGED notAP

InitAP ==
    /\ fields_index = NoFieldsIndex
    /\ gen = NoGenerator
    /\ yielded = <<>>
    /\ pv = NoCall

\* ---------------------------------------------------------------------
\* ValidationGroup.update_query (condensedui/widgets.py:217-265)

Comma == ","

\* the six ACMG classes (widgets.py:175), numbered from 0
Classes == 0..5

\* a child of an $and list {key: ...}: its key and what the key holds
Cond(key, flag, ints, strs) ==
    [key |-> key, flag |-> flag, ints |-> ints, strs |-> strs]

\* {"favorite": True}
Favorite == Cond("favorite", TRUE, <<>>, <<>>)
\* {"classification": {"$in": [i for i, cl in enumerate(selected) if cl]}}
Classification(selected) ==
    Cond("classification", FALSE, Ascending({i \in Classes : selected[i]}), <<>>)
\* {"$or": [{"tags": {"$has": tag}} for tag in text.split(",")]}
TagsInclude(text) == Cond("$or", FALSE, <<>>, Split(text, Comma))
\* {"comment": {"$regex": text}}
CommentSearch(text) == Cond("comment", FALSE, <<>>, <<text>>)

\* children the incoming filters hold
Gene == Cond("gene", FALSE, <<>>, << <<"C", "F", "T", "R">> >>)
Impact == Cond("impact", FALSE, <<>>, << <<"H", "I", "G", "H">> >>)
OldClassification(i) == Cond("classification", FALSE, <<i>>, <<>>)

Tree(hasAnd, children) == [hasAnd |-> hasAnd, and |-> children]

\* the filters update_query is called with
InputFilters ==
    {Tree(FALSE, <<>>),
     Tree(TRUE, <<>>),
     Tree(TRUE, <<Gene>>),
     Tree(TRUE, <<Gene, OldClassification(1), Impact>>),
     Tree(TRUE, <<OldClassification(0), Gene, OldClassification(3)>>)}

\* the texts typed in le_tags_include and le_comments_search
TagTexts == {<<>>, <<"a">>, <<"a", ",", "b">>}
CommentTexts == {<<>>, <<"x">>}

\* the last child with that key, 0 when there is none
FirstKeyed_last(children, key) ==
    IF \E i \in 1..Len(children) : children[i].key = key
    THEN CHOOSE i \in 1..Len(children) :
             /\ children[i].key = key
             /\ \A j \in (i + 1)..Len(children) : children[j].key # key
    ELSE 0

\* for index, cond in enumerate(filters["$and"]):
\*     if list(cond.keys())[0] == list(condition.keys())[0]   (lines 243-244)
\* the first child with that key, 0 when the loop ends without a break
FirstKeyed(children, key) ==
    IF \E i \in 1..Len(children) : children[i].key = key
    THEN CHOOSE i \in 1..Len(children) :
             /\ children[i].key = key
             /\ \A j \in 1..(i - 1) : children[j].key # key
    ELSE 0

\* lines 243-248: overwrite at the break, append in the else of the for
RefreshCondition(children, condition) ==
    LET i == FirstKeyed(children, condition.key)
    IN IF i = 0 THEN Append(children, condition)
       ELSE [children EXCEPT ![i] = condition]

\* lines 225-226
WithFavorite(w, children) ==
    IF w.fav THEN Append(children, Favorite) ELSE children

\* the test without its any(...)
Refreshes_without_any(w) == \E i \in Classes : ~w.selected[i]

\* not all(selected) and any(selected) (lines 229, 242)
Refreshes(w) ==
    /\ \E i \in Classes : ~w.selected[i]
    /\ \E i \in Classes : w.selected[i]

\* lines 229-248
WithClassification(w, children) ==
    IF Refreshes(w) THEN RefreshCondition(children, Classification(w.selected))
    ELSE children

\* lines 250-258
WithTags(w, children) ==
    IF w.tags # <<>> THEN Append(children, TagsInclude(w.tags)) ELSE children

\* lines 260-263
WithComment(w, children) ==
    IF w.comment # <<>> THEN Append(children, CommentSearch(w.comment))
    ELSE children

\* what lines 225-263 leave in the list filters["$and"]
NewAnd(w, children) ==
    WithComment(w, WithTags(w, WithClassification(w, WithFavorite(w, children))))

NoList == "none"
NoTree == Tree(FALSE, <<>>)

\* the tree a dict holds now
TreeOf(d) ==
    IF d.and = NoList THEN Tree(FALSE, <<>>) ELSE Tree(TRUE, lists[d.and])

NoCalls ==
    /\ lists' = [given |-> <<>>, made |-> <<>>]
    /\ passed' = [and |-> NoList]
    /\ returned' = [and |-> NoList]
    /\ before' = NoTree
    /\ first' = NoTree
    /\ applied' = 0

\* checkbox_fav is toggled (line 195)
ToggleFavorite ==
    /\ widgets' = [widgets EXCEPT !.fav = ~@]
    /\ NoCalls
    /\ UNCHANGED notVG

\* ACMGButtons._on_classification_toggled (lines 177-181)
ToggleClassification ==
    \E i \in Classes :
        /\ widgets' = [widgets EXCEPT !.selected[i] = ~@]
        /\ NoCalls
        /\ UNCHANGED notVG

\* the user edits le_tags_include (line 198)
EditTags ==
    \E text \in TagTexts \ {widgets.tags} :
        /\ widgets' = [widgets EXCEPT !.tags = text]
        /\ NoCalls
        /\ UNCHANGED notVG

\* the user edits le_comments_search (line 206)
EditComment ==
    \E text \in CommentTexts \ {widgets.comment} :
        /\ widgets' = [widgets EXCEPT !.comment = text]
        /\ NoCalls
        /\ UNCHANGED notVG

\* update_query(fields, filters, source) on a filters dict of the caller.
\* filters.copy() (line 219) is a shallow copy: the new dict holds the very
\* list the caller's dict holds under "$and", and lines 225-263 write into
\* that list; only when the key is missing is a new list made (line 222).
UpdateQuery ==
    \E f \in InputFilters :
        /\ before' = f
        /\ passed' = [and |-> IF f.hasAnd THEN "given" ELSE NoList]
        /\ returned' = [and |-> IF f.hasAnd THEN "given" ELSE "made"]
        /\ lists' = IF f.hasAnd
                    THEN [given |-> NewAnd(widgets, f.and), made |-> <<>>]
                    ELSE [given |-> <<>>, made |-> NewAnd(widgets, <<>>)]
        /\ first' = Tree(TRUE, NewAnd(widgets, f.and))
        /\ applied' = 1
        /\ UNCHANGED widgets
        /\ UNCHANGED notVG

\* update_query is called again on the dict it has just returned, the
\* widgets being as they were
UpdateQueryAgain ==
    /\ applied = 1
    /\ before' = TreeOf(returned)
    /\ passed' = returned
    /\ returned' = returned
    /\ lists' = [lists EXCEPT ![returned.and] = NewAnd(widgets, @)]
    /\ applied' = 2
    /\ UNCHANGED <<widgets, first>>
    /\ UNCHANGED notVG

\* ValidationGroup.__init__ (lines 189-215), ACMGButtons.__init__ (line 175)
InitVG ==
    /\ widgets = [fav |-> FALSE, selected |-> [i \in Classes |-> TRUE],
                  tags |-> <<>>, comment |-> <<>>]
    /\ lists = [given |-> <<>>, made |-> <<>>]
    /\ passed = [and |-> NoList]
    /\ returned = [and |-> NoList]
    /\ before = NoTree
    /\ first = NoTree
    /\ applied = 0

\* ---------------------------------------------------------------------
\* VcfReader.parse_variants (vcfreader.py:92-148)

Slash == "/"

\* str(i) for the numbers the records hold
Digits == <<"0", "1", "2", "3", "4", "5", "6", "7", "8", "9">>
Str(i) == <<Digits[i + 1]>>

\* ",".join(tokens)
RECURSIVE JoinComma(_)
JoinComma(tokens) ==
    IF Len(tokens) = 0 THEN <<>>
    ELSE IF Len(tokens) = 1 THEN tokens[1]
    ELSE tokens[1] \o <<Comma>> \o JoinComma(Tail(tokens))

\* the calls of one sample: GT, a string, and AD, a list of numbers
GTs == {<<"0", Slash, "1">>, <<"1", Slash, "1">>}
ADs == {<<7>>, <<3, 4>>}
Calls == [GT : GTs, AD : ADs]

\* sample.sample of the i-th sample column
SampleName(i) == <<"S">> \o Str(i)

\* the records of the file: up to MaxSamples samples, 1..MaxAlts alternative
\* alleles, FORMAT "GT:AD", with or without an INFO field
Records ==
    [samples : UNION {[1..n -> Calls] : n \in 0..MaxSamples},
     nalt : 1..MaxAlts,
     info : {{}, {"DP"}}]

\* the names parse_fields yields with category "variant"
\* (vcfreader.py:150-198), in the order it yields them
VariantFields == <<"chr", "pos", "rsid", "ref", "alt", "qual", "filter">>

NoRecord == [samples |-> <<>>, nalt |-> 0, info |-> {}]
NoVariant == [keys |-> {}, alt |-> 0, samples |-> <<>>]

\* d[key] = value on a dict kept as the set of its (key, value) pairs
Assign(d, key, value) == {e \in d : e[1] # key} \cup {<<key, value>>}

\* lines 122-130: the writes one turn of the sample loop makes in sample_data
SampleWrites(d, i, call) ==
    Assign(Assign(Assign(d, "name", SampleName(i)), "GT", call.GT),
           "AD", JoinComma([k \in 1..Len(call.AD) |-> Str(call.AD[k])]))

\* for record in vcf_reader (line 102)
ReadRecord ==
    /\ pc = "record"
    /\ \E r \in Records : record' = r
    /\ alt_index' = 0
    /\ pc' = "alt"
    /\ UNCHANGED <<variant, objects, sample_index>>
    /\ UNCHANGED notVR

\* one turn of the loop over record.ALT up to the sample loop (lines
\* 104-120): the variant dict, its INFO keys and, when the record has
\* samples, the list variant["samples"] and the one dict sample_data
StartVariant ==
    /\ pc = "alt"
    /\ variant' = [keys |-> {"chr", "pos", "ref", "alt"} \cup record.info
                             \cup (IF Len(record.samples) > 0
                                   THEN {"samples"} ELSE {}),
                   alt |-> alt_index,
                   samples |-> <<>>]
    /\ objects' = IF Len(record.samples) > 0 THEN <<{}>> ELSE <<>>
    /\ sample_index' = 0
    /\ pc' = IF Len(record.samples) > 0 THEN "sample" ELSE "yield"
    /\ UNCHANGED <<record, alt_index>>
    /\ UNCHANGED notVR

\* one turn of the loop over record.samples (lines 121-132): the fields are
\* written into sample_data, the dict made at line 120, and that dict is
\* appended to variant["samples"]
SampleStep ==
    /\ pc = "sample"
    /\ LET i == sample_index + 1
       IN /\ objects' = [objects EXCEPT
                             ![1] = SampleWrites(@, i, record.samples[i])]
          /\ variant' = [variant EXCEPT !.samples = Append(@, 1)]
          /\ sample_index' = i
          /\ pc' = IF i = Len(record.samples) THEN "yield" ELSE "sample"
    /\ UNCHANGED <<record, alt_index>>
    /\ UNCHANGED notVR

\* yield variant (line 148)
YieldVariant ==
    /\ pc = "yield"
    /\ pc' = "yielded"
    /\ UNCHANGED <<record, alt_index, variant, objects, sample_index>>
    /\ UNCHANGED notVR

\* the consumer asks for the next variant: next alternative allele, or
\* next record. The variant yielded is the consumer's from here on; the
\* generator's names are bound anew before they are read again.
Resume ==
    /\ pc = "yielded"
    /\ alt_index' = alt_index + 1
    /\ pc' = IF alt_index + 1 < record.nalt THEN "alt" ELSE "record"
    /\ variant' = NoVariant
    /\ objects' = <<>>
    /\ sample_index' = 0
    /\ UNCHANGED record
    /\ UNCHANGED notVR

InitVR ==
    /\ record = NoRecord
    /\ alt_index = 0
    /\ variant = NoVariant
    /\ objects = <<>>
    /\ sample_index = 0
    /\ pc = "record"

\* ---------------------------------------------------------------------
\* SettingsDialog and SectionWidget (gui/settings.py), PageTest
\* (tests/gui/test_settings.py)

\* the value a page holds: the one it was built or loaded with, or 32
PageValues == {"default", "32"}

\* the sections SettingsDialog.__init__ adds: general_settings with its
\* three pages (lines 814-825, 836) and plugin_settings, a settings widget
\* that is its own only page (lines 828, 837)
BuiltIn == << <<"default", "default", "default">>, <<"default">> >>

\* SectionWidget.save of section s (line 124): save() of each tab, by index
SectionSave(s) == [p \in 1..Len(sections[s]) |-> <<s, p>>]

\* the sections gone through from the last one
RECURSIVE SaveCalls_backwards(_)
SaveCalls_backwards(k) ==
    IF k > Len(sections) THEN <<>>
    ELSE SaveCalls_backwards(k + 1) \o SectionSave(k)

\* [widget.save() for widget in self.widgets] (line 863), from the k-th on
RECURSIVE SaveCalls(_)
SaveCalls(k) ==
    IF k > Len(sections) THEN <<>>
    ELSE SectionSave(k) \o SaveCalls(k + 1)

\* Config after the save() calls: each page writes its value under its key
\* and saves (test_settings.py:26-29)
RECURSIVE Saved(_, _)
Saved(cfg, calls) ==
    IF calls = <<>> THEN cfg
    ELSE Saved(Assign(cfg, calls[1], sections[calls[1][1]][calls[1][2]]),
               Tail(calls))

\* dialog.add_section(section) (lines 850-859) with a section to which
\* add_page (lines 118-120) has added n pages
AddSection ==
    /\ Len(sections) < Len(BuiltIn) + MaxAdded
    /\ \E n \in 0..MaxPages :
           sections' = Append(sections, [p \in 1..n |-> "default"])
    /\ sd_op' = "add_section"
    /\ UNCHANGED <<config, saves, visible, edits>>
    /\ UNCHANGED notSD

\* the user, or the test (line 59), gives a page a value
SetValue ==
    /\ edits < MaxEdits
    /\ \E s \in 1..Len(sections) : \E p \in 1..Len(sections[s]) :
       \E v \in PageValues \ {sections[s][p]} :
           sections' = [sections EXCEPT ![s][p] = v]
    /\ edits' = edits + 1
    /\ sd_op' = "set_value"
    /\ UNCHANGED <<config, saves, visible>>
    /\ UNCHANGED notSD

\* dialog.show()
Show ==
    /\ ~visible
    /\ visible' = TRUE
    /\ sd_op' = "show"
    /\ UNCHANGED <<sections, config, saves, edits>>
    /\ UNCHANGED notSD

\* the Save All button is clicked: save_all (lines 861-864) calls save() of
\* every widget of self.widgets, then accept(), which hides the dialog; the
\* close() connected to accepted (line 848) finds it hidden
SaveAll ==
    /\ visible
    /\ saves' = SaveCalls(1)
    /\ config' = Saved(config, SaveCalls(1))
    /\ visible' = FALSE
    /\ sd_op' = "save_all"
    /\ UNCHANGED <<sections, edits>>
    /\ UNCHANGED notSD

\* the Cancel button is clicked: close() (line 791), then reject() asks for
\* a confirmation (lines 944-960)
Cancel ==
    /\ visible
    /\ \E yes \in BOOLEAN : visible' = ~yes
    /\ sd_op' = "cancel"
    /\ UNCHANGED <<sections, config, saves, edits>>
    /\ UNCHANGED notSD

\* SettingsDialog.__init__ (lines 779-848)
InitSD ==
    /\ sections = BuiltIn
    /\ config = {}
    /\ saves = <<>>
    /\ visible = FALSE
    /\ edits = 0
    /\ sd_op = "init"

\* ---------------------------------------------------------------------
\* LinksModel (variant_view/settings.py:20-140)

LinkNames == {"ucsc", "google", "ensembl"}
LinkUrls == {"u1"}

Link(name, url, is_browser, is_default) ==
    [name |-> name, url |-> url, is_browser |-> is_browser,
     is_default |-> is_default]

\* the rows of the model, numbered from 0 as index.row() is
Rows == 0..(Len(links) - 1)

\* the loop that leaves the other links as they are
ClearOtherDefaults_none(ls, kept) == ls

\* for link in self.links: if link["is_default"] and link is not new_link:
\* link["is_default"] = False (lines 66-69, 116-119); kept is the row of
\* the link just stored
ClearOtherDefaults(ls, kept) ==
    [i \in 1..Len(ls) |->
        IF ls[i].is_default /\ i # kept + 1
        THEN [ls[i] EXCEPT !.is_default = FALSE]
        ELSE ls[i]]

\* del self.links[row] (line 86)
Del(ls, row) == SubSeq(ls, 1, row) \o SubSeq(ls, row + 2, Len(ls))

\* for row in rows: del self.links[row] (lines 84-87), rows being sorted in
\* descending order
RECURSIVE DelRows(_, _)
DelRows(ls, rows) ==
    IF rows = <<>> THEN ls ELSE DelRows(Del(ls, rows[1]), Tail(rows))

LmOp(name, row, is_default, result, ls) ==
    [name |-> name, row |-> row, is_default |-> is_default,
     result |-> result,
     had_default |-> \E i \in 1..Len(links) : links[i].is_default,
     changed |-> ls # links]

\* add_link(name, url, is_browser, is_default) (lines 25-72)
add_link ==
    \E name \in LinkNames, url \in LinkUrls, is_browser, is_default \in BOOLEAN :
        IF \E i \in 1..Len(links) : links[i].name = name
        THEN /\ lm_op' = LmOp("add_link", Len(links), is_default, FALSE, links)
             /\ UNCHANGED links
             /\ UNCHANGED notLM
        ELSE /\ Len(links) < MaxLinks
             /\ LET appended ==
                        Append(links, Link(name, url, is_browser, is_default))
                    new == IF is_default
                           THEN ClearOtherDefaults(appended, Len(links))
                           ELSE appended
                IN /\ links' = new
                   /\ lm_op' = LmOp("add_link", Len(links), is_default, TRUE, new)
             /\ UNCHANGED notLM

\* remove_links(indexes) (lines 74-88)
remove_links ==
    \E rows \in SUBSET Rows :
        LET new == DelRows(links, Reverse(Ascending(rows)))
        IN /\ links' = new
           /\ lm_op' = LmOp("remove_links", -1, FALSE, TRUE, new)
           /\ UNCHANGED notLM

\* edit_link(index, name, url, is_browser, is_default) (lines 93-122)
edit_link ==
    \E row \in Rows, name \in LinkNames, url \in LinkUrls,
       is_browser, is_default \in BOOLEAN :
        LET stored == [links EXCEPT
                           ![row + 1] = Link(name, url, is_browser, is_default)]
            new == IF is_default THEN ClearOtherDefaults(stored, row)
                   ELSE stored
        IN /\ links' = new
           /\ lm_op' = LmOp("edit_link", row, is_default, TRUE, new)
           /\ UNCHANGED notLM

\* clear() (lines 127-130)
clear ==
    /\ links' = <<>>
    /\ lm_op' = LmOp("clear", -1, FALSE, TRUE, <<>>)
    /\ UNCHANGED notLM

\* make_default(index) (lines 132-140)
make_default ==
    \E row \in Rows :
        LET new == [i \in 1..Len(links) |->
                       [links[i] EXCEPT !.is_default = (i = row + 1)]]
        IN /\ links' = new
           /\ lm_op' = LmOp("make_default", row, TRUE, TRUE, new)
           /\ UNCHANGED notLM

\* LinksModel.__init__ (lines 21-23)
InitLM ==
    /\ links = <<>>
    /\ lm_op = [name |-> "init", row |-> -1, is_default |-> FALSE,
                result |-> TRUE, had_default |-> FALSE, changed |-> FALSE]

\* ---------------------------------------------------------------------
\* CondenseduiWidget (condensedui/widgets.py:331-412)

\* connect() calls made for each of presets_changed and
\* validation_crit_changed in __init__ (lines 351-352, 362-363); a slot
\* connected twice is called twice per emission
Connections == 2

\* the filters the presets of combo_filters hold
PresetFilters ==
    <<Tree(FALSE, <<>>), Tree(TRUE, <<Gene>>),
      Tree(TRUE, <<Gene, OldClassification(1), Impact>>)>>

\* the calls one run of update_query makes on mainwindow (lines 409-412)
UpdateCalls == <<"fields", "filters", "source", "refresh">>

RECURSIVE Repeat(_, _)
Repeat(seq, n) == IF n = 0 THEN <<>> ELSE seq \o Repeat(seq, n - 1)

\* update_query (lines 397-412), run by every connection of the signal
\* emitted: the filters of the selected preset go through
\* ValidationGroup.update_query and are handed to mainwindow
Emitted(w, row) ==
    /\ state_data' = Tree(TRUE, NewAnd(w, PresetFilters[row].and))
    /\ mw_calls' = Repeat(UpdateCalls, Connections)

\* checkbox_fav.toggled -> validation_crit_changed (line 195)
FavoriteToggled ==
    /\ widgets' = [widgets EXCEPT !.fav = ~@]
    /\ Emitted(widgets', preset)
    /\ UNCHANGED preset
    /\ UNCHANGED notCW

\* acmg_changed -> validation_crit_changed (lines 181, 196)
ClassificationToggled ==
    /\ \E i \in Classes : widgets' = [widgets EXCEPT !.selected[i] = ~@]
    /\ Emitted(widgets', preset)
    /\ UNCHANGED preset
    /\ UNCHANGED notCW

\* combo_filters.currentTextChanged -> presets_changed (line 84)
PresetChanged ==
    /\ \E row \in (1..Len(PresetFilters)) \ {preset} : preset' = row
    /\ Emitted(widgets, preset')
    /\ UNCHANGED widgets
    /\ UNCHANGED notCW

\* text typed in le_tags_include or le_comments_search: no signal is
\* connected to them (lines 198-207)
TextEdited ==
    /\ \E tags \in TagTexts, comment \in CommentTexts :
           /\ <<tags, comment>> # <<widgets.tags, widgets.comment>>
           /\ widgets' = [widgets EXCEPT !.tags = tags, !.comment = comment]
    /\ mw_calls' = <<>>
    /\ UNCHANGED <<preset, state_data>>
    /\ UNCHANGED notCW

\* CondenseduiWidget.__init__ (lines 344-363)
InitCW ==
    /\ preset = 1
    /\ state_data = NoTree
    /\ mw_calls = <<>>

\* ---------------------------------------------------------------------
\* GenotypesWidget._create_field_menu (genotypes/widgets.py:132-147)

\* GenotypesModel._fields (line 28)
GenotypeFields == <<"gt", "ad", "gq", "pl">>

\* GenotypesModel.columnCount (lines 34-36)
GenotypeColumns == Len(GenotypeFields) + 1

\* GenotypesModel.headerData (lines 53-64) for a horizontal display header
headerData(section) ==
    IF section = 0 THEN "sample" ELSE GenotypeFields[section]

NoColumn == -1

\* the value of col once "for col in range(columnCount)" has ended: the last
\* one it took (line 136)
LoopEnd == GenotypeColumns - 1

\* on_open_project calls _create_field_menu (line 163): one unchecked
\* action per column, each with a lambda that reads col when it is called
\* (lines 141-143); the view's columns stay as they are
CreateFieldMenu ==
    /\ menu' = [c \in 1..GenotypeColumns |->
                    [text |-> headerData(c - 1), checked |-> FALSE]]
    /\ col' = LoopEnd
    /\ gw_op' = [name |-> "create_field_menu", action |-> NoColumn]
    /\ UNCHANGED hidden
    /\ UNCHANGED notGW

\* the user toggles the action created for column c: its lambda runs
\* self.view.showColumn(col) if x else self.view.hideColumn(col), with col
\* as it is now
ActionToggled ==
    /\ \E c \in 0..(Len(menu) - 1) :
           LET x == ~menu[c + 1].checked
           IN /\ menu' = [menu EXCEPT ![c + 1].checked = x]
              /\ hidden' = IF x THEN hidden \ {col} ELSE hidden \cup {col}
              /\ gw_op' = [name |-> "toggled", action |-> c]
    /\ UNCHANGED col
    /\ UNCHANGED notGW

\* GenotypesWidget.__init__ (lines 104-130): no menu yet, every column shown
InitGW ==
    /\ col = NoColumn
    /\ menu = <<>>
    /\ hidden = {}
    /\ gw_op = [name |-> "init", action |-> NoColumn]

Init ==
    InitQM /\ InitAP /\ InitVG /\ InitVR /\ InitSD /\ InitLM /\ InitCW /\ InitGW

Next ==
    \/ Load
    \/ OpenProject
    \/ ChangeQuery
    \/ load_from_vql
    \/ SetPage
    \/ NextPage
    \/ PreviousPage
    \/ FirstPage
    \/ LastPage
    \/ Sort
    \/ StoreChange

Spec == Init /\ [][Next]_vars

\* AnnotationParser alone, beside a QueryModel nobody uses
InitOnlyAP ==
    /\ InitQM /\ conn = NoConn /\ nstore = 0
    /\ InitAP /\ InitVG /\ InitVR /\ InitSD /\ InitLM /\ InitCW /\ InitGW

NextAP ==
    \/ ParseFieldsCall
    \/ GeneratorNext
    \/ ParseVariant

SpecAP == InitOnlyAP /\ [][NextAP]_vars

\* ValidationGroup alone
NextVG ==
    \/ ToggleFavorite
    \/ ToggleClassification
    \/ EditTags
    \/ EditComment
    \/ UpdateQuery
    \/ UpdateQueryAgain

SpecVG == InitOnlyAP /\ [][NextVG]_vars

\* VcfReader.parse_variants alone
NextVR ==
    \/ ReadRecord
    \/ StartVariant
    \/ SampleStep
    \/ YieldVariant
    \/ Resume

SpecVR == InitOnlyAP /\ [][NextVR]_vars

\* SettingsDialog alone
NextSD ==
    \/ AddSection
    \/ SetValue
    \/ Show
    \/ SaveAll
    \/ Cancel

SpecSD == InitOnlyAP /\ [][NextSD]_vars

\* LinksModel alone
NextLM ==
    \/ add_link
    \/ remove_links
    \/ edit_link
    \/ clear
    \/ make_default

SpecLM == InitOnlyAP /\ [][NextLM]_vars

\* CondenseduiWidget alone
NextCW ==
    \/ FavoriteToggled
    \/ ClassificationToggled
    \/ PresetChanged
    \/ TextEdited

SpecCW == InitOnlyAP /\ [][NextCW]_vars

\* GenotypesWidget alone
NextGW ==
    \/ CreateFieldMenu
    \/ ActionToggled

SpecGW == InitOnlyAP /\ [][NextGW]_vars



\* ------------------------------------------------------------------------
\* Properties of QueryModel
\* ------------------------------------------------------------------------

PageOps == {"setPage", "nextPage", "previousPage", "firstPage", "lastPage"}
LoadOps == {"load", "on_open_project", "change_query"}
MutatingOps == LoadOps \cup PageOps \cup {"load_from_vql", "sort"}

\* the page an operation asks for, from the state it is called in
RequestedPage ==
    CASE op'.name = "nextPage" -> page + 1
      [] op'.name = "previousPage" -> page - 1
      [] op'.name = "firstPage" -> 0
      [] op'.name = "lastPage" -> total \div limit
      [] OTHER -> op'.arg

\* the rows of page p of the current query, as the store holds them
PageRows(p) ==
    select_cmd(nstore, fields, source, filters, limit, p * limit, order_desc,
               order_by)

Min(a, b) == IF a < b THEN a ELSE b

\* C1: a page operation whose requested page p fails p >= 0 /\ p * limit <
\* total changes nothing, fetches nothing, notifies nobody and raises
\* nothing; one whose p passes sets page to p and fetches that page (at
\* offset p * limit; the rows of page p are cached when the select returns).
C1_PageBounds ==
    [][op'.name \in PageOps =>
         LET p == RequestedPage IN
         IF p >= 0 /\ p * limit < total
         THEN /\ page' = p
              /\ fetch'.issued
              /\ fetch'.offset = p * limit
              /\ outcome' = "returned" => variants' = PageRows(p)
         ELSE /\ UNCHANGED <<page, variants, headers, total>>
              /\ ~fetch'.issued
              /\ signals' = <<>>
              /\ outcome' = "returned"]_vars

\* C1 witness: nextPage was refused on the last page of a loaded result
C1_Witness ==
    /\ op.name = "nextPage"
    /\ ~fetch.issued
    /\ page > 0
    /\ variants # <<>>
    /\ (page + 1) * limit >= total

\* the last existing page: the greatest p with p >= 0 /\ p * limit < total
LastExistingPage ==
    CHOOSE p \in 0..total :
        /\ p * limit < total
        /\ \A q \in 0..total : q * limit < total => q <= p

\* C2: with total > 0, lastPage() leaves the model on the last existing page.
C2_LastPageLands ==
    [][(op'.name = "lastPage" /\ total > 0) => page' = LastExistingPage]_vars

\* C3: when the select of a load raises, the model holds the rows, headers,
\* page and total it had before the load.
C3_FailedLoadKeepsRows ==
    [][(op'.name = "load" /\ outcome' = "select_raised") =>
         UNCHANGED <<variants, headers, page, total>>]_vars

\* C4: no failure of the select or of the count leaves a public mutating
\* operation of QueryModel as an exception.
C4_NoEscape ==
    op.name \in MutatingOps => outcome \notin {"select_raised", "count_raised"}

\* C5: a load whose select returns no row leaves headers as they were; one
\* whose select returns rows sets headers to the keys of the first row.
C5_HeaderStability ==
    [][(fetch'.issued /\ outcome' # "select_raised") =>
         IF variants' = <<>>
         THEN headers' = headers
         ELSE headers' = variants'[1].keys]_vars

\* C5 witness: a load fetched an empty page and the headers of an earlier
\* page are still there
C5_Witness ==
    /\ fetch.issued
    /\ outcome = "returned"
    /\ variants = <<>>
    /\ headers # <<>>

C7_ResetPaired ==
    fetch.issued =>
        /\ Len(signals) >= 3
        /\ SubSeq(signals, 1, 3) = <<"modelAboutToBeReset", "rows", "modelReset">>
        /\ \A i \in 4..Len(signals) :
               signals[i] \notin {"modelAboutToBeReset", "modelReset"}
        /\ \A i \in DOMAIN signals :
               signals[i] = "changed" => (i = 4 /\ op.name \in LoadOps /\ op.emit)

\* C8: hasPage(p) holds exactly for 0 <= p < ceil(total / limit); and while
\* total is the count of the rows that the source and filters of the fetch
\* select from the store (the store is as it was when total was counted), a
\* fetch of a page p with hasPage(p) is issued at offset p * limit and
\* caches min(limit, total - p * limit) rows.
C8_PageSizes ==
    [][/\ \A p \in PageArgs :
              hasPage(p) <=> (0 <= p /\ p < (total + limit - 1) \div limit)
       /\ (/\ fetch'.issued
           /\ outcome' # "select_raised"
           /\ total = count_cmd(nstore, source', filters')
           /\ page' >= 0 /\ page' * limit < total) =>
              /\ fetch'.offset = page' * limit
              /\ Len(variants') = Min(limit, total - page' * limit)
      ]_vars

\* C8 witness: the last page of a result of 2 * limit + 1 rows was fetched
\* and holds one row (page 2 of 125 rows by 50 holds 25)
C8_Witness ==
    /\ op.name \in PageOps
    /\ fetch.issued
    /\ outcome = "returned"
    /\ total = 2 * limit + 1
    /\ total = count_cmd(nstore, source, filters)
    /\ page = 2
    /\ Len(variants) = 1
    /\ ~hasPage(3)

\* C9: the cached page never holds more than limit rows.
C9_RowsWithinLimit == Len(variants) <= limit

\* C9 witness: a full page is cached
C9_Witness ==
    /\ fetch.issued
    /\ Len(variants) = limit
    /\ limit < total

\* ------------------------------------------------------------------------
\* Properties of AnnotationParser
\* ------------------------------------------------------------------------

\* the 1-based positions of the pipe-separated tokens of raw that, trimmed
\* and lower-cased, are keys of the annotation schema
Recognised(raw) ==
    LET tokens == Split(raw, Pipe)
    IN {i \in 1..Len(tokens) : Lower(Strip(tokens[i])) \in SchemaKeys}

\* C10: a fully consumed parse_fields(header) has yielded, in header order,
\* the schema's descriptor of each token of header that, trimmed and
\* lower-cased, is a key of the schema, and nothing for the other tokens;
\* it never raises.
C10_ParseFieldsYield ==
    gen.state = "done" =>
        LET tokens == Split(gen.raw, Pipe)
            rec == Ascending(Recognised(gen.raw))
        IN /\ Len(yielded) = Len(rec)
           /\ \A k \in 1..Len(rec) :
                  /\ <<Lower(Strip(tokens[rec[k]])), yielded[k]>>
                        \in SNPEFF_ANNOTATION_DEFAULT_FIELDS
                  /\ yielded[k].category = "annotation"

\* C10 witness: "Allele|Annotation|Gene_Name" was consumed and yielded the
\* descriptors of consequence and gene, in that order
C10_Witness ==
    /\ gen.state = "done"
    /\ gen.raw = JoinPipe(<<tokAllele, tokAnnotation, tokGeneName>>)
    /\ Len(yielded) = 2
    /\ yielded[1].name = "consequence"
    /\ yielded[2].name = "gene"

\* the output name of the recognised token at position i of header raw
NameAt(raw, i) == SchemaAt(Lower(Strip(Split(raw, Pipe)[i]))).name

\* the recognised positions of header raw that value has a token for
Shared(raw, value) == {i \in Recognised(raw) : i <= Len(Split(value, Pipe))}

\* every pair (output name of position i, i-th token of value)
AllPairs(raw, value) ==
    {<<NameAt(raw, i), Split(value, Pipe)[i]>> : i \in Shared(raw, value)}

\* the same, a name met at several positions keeping the last of them
LastPairs(raw, value) ==
    {<<NameAt(raw, i), Split(value, Pipe)[i]>> :
        i \in {k \in Shared(raw, value) :
                  \A j \in Shared(raw, value) :
                      NameAt(raw, j) = NameAt(raw, k) => j <= k}}

\* C11 as stated: after parse_fields(header) was fully consumed,
\* parse_variant(value) returns the pairs (output name of recognised position
\* i, i-th token of value) of every recognised position value has, and
\* nothing else.
C11_EveryPosition ==
    (pv.called /\ gen.state = "done") =>
        /\ ~pv.raised
        /\ pv.result = AllPairs(gen.raw, pv.value)

\* C11 amended: after parse_fields(header) was fully consumed,
\* parse_variant(value) returns the mapping from the output name of each
\* recognised position value has to the token of value at that position,
\* the last such position when a name is recognised at several; the other
\* positions are dropped.
C11_ParseVariant ==
    (pv.called /\ gen.state = "done") =>
        /\ ~pv.raised
        /\ pv.result = LastPairs(gen.raw, pv.value)

\* C11 witness: "Allele|Annotation|Gene_Name" was consumed and
\* parse_variant("A|missense|TP53") returned consequence and gene
C11_Witness ==
    /\ pv.called
    /\ gen.state = "done"
    /\ gen.raw = JoinPipe(<<tokAllele, tokAnnotation, tokGeneName>>)
    /\ pv.value = valThree
    /\ pv.result = {<<"consequence", <<"m", "i", "s", "s", "e", "n", "s", "e">> >>,
                    <<"gene", <<"T", "P", "5", "3">> >>}

\* C12: parse_variant on a parser on which parse_fields was never called
\* returns an empty mapping and raises nothing.
C12_EmptyBeforeParseFields ==
    (pv.called /\ gen.state = "none") =>
        /\ ~pv.raised
        /\ pv.result = {}

\* C13: once parse_fields(header) has been called, parse_variant uses the
\* position table of that most recent header, however far the returned
\* sequence was iterated.
C13_MostRecentHeader ==
    (pv.called /\ gen.state # "none") =>
        /\ ~pv.raised
        /\ pv.result = LastPairs(gen.raw, pv.value)

\* C14: a second update_query with the same widget state, on the filters
\* the first one returned, returns a tree structurally identical to the one
\* the first one returned.
C14_Idempotent ==
    applied = 2 => TreeOf(returned) = first

\* C15: update_query leaves the tree passed to it as it was, and the tree it
\* returns holds none of the lists of the tree passed.
C15_InputUntouched ==
    applied >= 1 =>
        /\ TreeOf(passed) = before
        /\ returned.and # passed.and

\* C16: when update_query refreshes the classification condition (some but
\* not all classes selected), the first child keyed 'classification' of the
\* incoming $and list is overwritten where it stands, or, when there is
\* none, the condition is appended after the existing children; every other
\* incoming child keeps its value and its place.
C16_ReplaceOrAppend ==
    (applied >= 1 /\ Refreshes(widgets)) =>
        LET old == before.and
            new == TreeOf(returned).and
            condition == Classification(widgets.selected)
            keyed == {i \in 1..Len(old) : old[i].key = "classification"}
            added == {k \in (Len(old) + 1)..Len(new) :
                         new[k].key = "classification"}
        IN /\ Len(new) >= Len(old)
           /\ IF keyed # {}
              THEN LET i == CHOOSE k \in keyed : \A j \in keyed : k <= j
                   IN /\ new[i] = condition
                      /\ \A j \in (1..Len(old)) \ {i} : new[j] = old[j]
                      /\ added = {}
              ELSE /\ \A j \in 1..Len(old) : new[j] = old[j]
                   /\ Cardinality(added) = 1
                   /\ \A k \in added : new[k] = condition

\* C16 witness: of two 'classification' children the first was overwritten
\* and the second kept, the child between them too
C16_Witness ==
    /\ applied = 1
    /\ Refreshes(widgets)
    /\ before = Tree(TRUE, <<OldClassification(0), Gene, OldClassification(3)>>)
    /\ TreeOf(returned).and[1] = Classification(widgets.selected)
    /\ TreeOf(returned).and[1] # OldClassification(0)
    /\ TreeOf(returned).and[2] = Gene
    /\ TreeOf(returned).and[3] = OldClassification(3)

\* C17: a variant yielded for a record with N samples carries a 'samples'
\* list of N entries, the i-th holding the name and the FORMAT values of
\* the i-th sample, and no two of the entries are the same dict.
C17_SamplesPerVariant ==
    (pc = "yielded" /\ Len(record.samples) > 0) =>
        /\ "samples" \in variant.keys
        /\ Len(variant.samples) = Len(record.samples)
        /\ \A i \in 1..Len(variant.samples) :
               objects[variant.samples[i]] =
                   SampleWrites({}, i, record.samples[i])
        /\ \A i, j \in 1..Len(variant.samples) :
               i # j => variant.samples[i] # variant.samples[j]

\* the pages of the dialog
Pages ==
    UNION {{<<s, p>> : p \in 1..Len(sections[s])} : s \in 1..Len(sections)}

\* C18: a click on Save All calls save() once on every page of every
\* section added with add_section, the sections in the order they were
\* added, and leaves the dialog hidden; Config then returns for each page
\* the value it saved.
C18_SaveAll ==
    sd_op = "save_all" =>
        /\ \A k \in Pages :
               Cardinality({i \in 1..Len(saves) : saves[i] = k}) = 1
        /\ \A i \in 1..Len(saves) : saves[i] \in Pages
        /\ \A i, j \in 1..Len(saves) : i < j => saves[i][1] <= saves[j][1]
        /\ ~visible
        /\ \A k \in Pages : <<k, sections[k[1]][k[2]]>> \in config

\* C18 witness: a section with one page was added, the page given 32, and
\* Save All has saved it after the dialog's own sections and closed the dialog
C18_Witness ==
    /\ sd_op = "save_all"
    /\ Len(sections) = 3
    /\ sections[3] = <<"32">>
    /\ saves[Len(saves)] = <<3, 1>>
    /\ Len(saves) = 5
    /\ <<<<3, 1>>, "32">> \in config
    /\ ~visible

\* the positions of the links that are the default
Defaults == {i \in 1..Len(links) : links[i].is_default}

\* C19: at most one link is the default after any sequence of add_link,
\* edit_link, make_default, remove_links and clear from the empty model;
\* right after an add_link that added a link with is_default = True, an
\* edit_link with is_default = True or a make_default, exactly one link is
\* the default: the one added, edited or selected.
C19_OneDefault ==
    /\ Cardinality(Defaults) <= 1
    /\ (lm_op.name = "add_link" /\ lm_op.is_default /\ lm_op.result) =>
           Defaults = {Len(links)}
    /\ (lm_op.name = "edit_link" /\ lm_op.is_default) =>
           Defaults = {lm_op.row + 1}
    /\ lm_op.name = "make_default" => Defaults = {lm_op.row + 1}

\* C19 witness: a default link was added while another link was the default
C19_Witness ==
    /\ lm_op.name = "add_link"
    /\ lm_op.is_default
    /\ lm_op.result
    /\ lm_op.had_default
    /\ Len(links) = 2
    /\ Defaults = {2}

\* C20: no two links share a name, and an add_link with a name already
\* there returns False and leaves the list as it was.
C20_NoDoubles ==
    /\ \A i, j \in 1..Len(links) : i # j => links[i].name # links[j].name
    /\ (lm_op.name = "add_link" /\ ~lm_op.result) => ~lm_op.changed

\* the columns a query with fields flds returns
Columns(flds) == {Row(0, flds).keys[k] : k \in 1..Len(Row(0, flds).keys)}

\* C21: sort(column, order) with 0 <= column < columnCount sets order_by to
\* headers[column] and fetches the current page again, page and total
\* unchanged; with any other column it leaves order_by, order_desc and the
\* cached rows as they were and raises nothing.
C21_SortValidColumn ==
    [][op'.name = "sort" =>
         IF 0 <= op'.arg /\ op'.arg < columnCount
         THEN /\ order_by' = headers[op'.arg + 1]
              /\ fetch'.issued
              /\ fetch'.order_by = order_by'
              /\ page' = page
              /\ total' = total
         ELSE /\ order_by' = order_by
              /\ order_desc' = order_desc
              /\ variants' = variants
              /\ outcome' = "returned"]_vars

\* C22: after every operation of QueryModel the current page is 0 or an
\* existing page: page * limit < total.
C22_PageExists ==
    page = 0 \/ page * limit < total

\* the value of total when the i-th entry of the signals of an operation
\* was emitted
NotifiedTotal(i) ==
    IF \E j \in 1..(i - 1) : signals'[j] = "total" THEN total' ELSE total

\* C23: whenever load notifies an observer (modelReset, changed), total
\* already equals the count for the current source and filters.
C23_TotalBeforeNotify ==
    [][\A i \in 1..Len(signals') :
           signals'[i] \in {"modelReset", "changed"} =>
               NotifiedTotal(i) = count_cmd(nstore', source', filters')]_vars

\* C24: the order_by of every query load issues is None or a column that
\* the current fields and source return.
C24_OrderByExists ==
    fetch.issued => (fetch.order_by = None \/ fetch.order_by \in Columns(fields))

\* the statement the VQL parser returns for a text it parses
ParsedVql == <<(<<"chr">>), "sel", "nofilter">>

\* C25: load_from_vql(text) with a text that parses as a select statement
\* sets fields, source and filters to those of the statement and reloads
\* the model; with a text that does not parse it leaves fields, source,
\* filters and the cached rows alone, issues no load and raises nothing.
C25_LoadFromVql ==
    [][op'.name = "load_from_vql" =>
         IF op'.arg = "SELECT chr FROM sel"
         THEN /\ fields' = ParsedVql[1]
              /\ source' = ParsedVql[2]
              /\ filters' = ParsedVql[3]
              /\ (conn # NoConn => fetch'.issued)
         ELSE /\ UNCHANGED <<fields, source, filters, variants>>
              /\ ~fetch'.issued
              /\ outcome' = "returned"]_vars

\* the positions of the children keyed 'classification'
Keyed(children) ==
    {i \in 1..Len(children) : children[i].key = "classification"}

\* the classes selected in the widgets
Selected == {c \in Classes : widgets.selected[c]}

\* children[i] is the condition on the selected classes: its $in list holds
\* them in ascending order
OfSelected(child) ==
    /\ {child.ints[k] : k \in 1..Len(child.ints)} = Selected
    /\ \A k \in 1..(Len(child.ints) - 1) : child.ints[k] < child.ints[k + 1]

CallCount(c) == Cardinality({i \in 1..Len(mw_calls) : mw_calls[i] = c})

\* C27: one emission of presets_changed or validation_crit_changed runs
\* update_query once: fields, filters and source are each set once, all
\* three before the one call of refresh_plugins.
C27_OneRunPerEmission ==
    mw_calls # <<>> =>
        /\ \A c \in {"fields", "filters", "source", "refresh"} : CallCount(c) = 1
        /\ mw_calls[Len(mw_calls)] = "refresh"

\* C28: toggling the action created for column c shows column c when the
\* action becomes checked, hides it when it becomes unchecked, and changes
\* no other column, for every column c of the model.
C28_ToggleOwnColumn ==
    [][gw_op'.name = "toggled" =>
         LET c == gw_op'.action
         IN /\ (c \in hidden') = ~menu'[c + 1].checked
            /\ \A d \in 0..(GenotypeColumns - 1) :
                   d # c => ((d \in hidden') = (d \in hidden))]_vars

\* C29: every field parse_fields declares with category "variant" is a key
\* of every variant parse_variants yields, and the variant yielded is the one
\* of the ALT allele the loop is at, the alleles being taken in order.
C29_VariantFieldsAreKeys ==
    pc = "yielded" =>
        /\ \A i \in 1..Len(VariantFields) : VariantFields[i] \in variant.keys
        /\ variant.alt = alt_index

=============================================================================
